---- MODULE Spec2Model ----
(***************************************************************************)
(* Model of the BL808 I2C master driver (drivers/i2c/busses/i2c-bl808.c):  *)
(* the register block, the FIFO pump, the transfer state machine driven by *)
(* bl808_i2c_isr, the blocking entry point bl808_i2c_xfer and the clock    *)
(* divider operations.                                                     *)
(*                                                                         *)
(* A 32-bit register value is the set of the indices of its set bits, so   *)
(* that |, &~ and shifts are union, difference and index translation.      *)
(***************************************************************************)
EXTENDS Integers, Sequences, FiniteSets, TLC

VARIABLES
    i2c_dev,    \* struct bl808_i2c_dev, its register block, and the memory
                \* (field msgs) that curr_msg and msg_buf point into
    pc,         \* position of the thread inside bl808_i2c_xfer
    num,        \* argument num of the bl808_i2c_xfer call in progress
    time_left,  \* result of wait_for_completion_timeout
    ret,        \* value returned by the last bl808_i2c_xfer call
    start_ret,  \* value bl808_i2c_start_transfer returned to bl808_i2c_xfer
    isr_pc,     \* position of the interrupt handler
    isr_val,    \* interrupt status bits the handler read from STS
    nirq,       \* number of interrupts handled so far
    trace,      \* shape of the interrupts handled since the call began
    clk         \* clock divider: the last request and its result

vars == <<i2c_dev, pc, num, time_left, ret, start_ret, isr_pc, isr_val,
          nirq, trace, clk>>

-----------------------------------------------------------------------------
(* Bounds of the model *)

\* interrupts handled in one behaviour
MaxIrqs == 2
\* FIFO words the hardware offers to one run of a pump loop
MaxSlots == 2

-----------------------------------------------------------------------------
(* Bit-level helpers *)

BIT(n) == {n}

\* the bits of a non-negative integer below 2^31
Bits(n) == {i \in 0..30 : (n \div (2^i)) % 2 = 1}

RECURSIVE Val(_)
\* the integer a bit set stands for
Val(S) == IF S = {} THEN 0
          ELSE LET i == CHOOSE j \in S : TRUE IN 2^i + Val(S \ {i})

\* v << n and v >> n on 32-bit values
Shl(S, n) == {i + n : i \in {j \in S : j + n <= 31}}
Shr(S, n) == {i - n : i \in {j \in S : j >= n}}

\* a field of width w at position sh
Field(w, sh) == sh..(sh + w - 1)

-----------------------------------------------------------------------------
(* Register bit layout *)

BL808_I2C_CONFIG_M_EN == BIT(0)
BL808_I2C_CONFIG_PKT_DIR == BIT(1)
BL808_I2C_CONFIG_SCL_SYNC_EN == BIT(3)
BL808_I2C_CONFIG_SUB_ADDR_EN == BIT(4)
BL808_I2C_CONFIG_SUB_ADDR_BC_SHIFT == 5
BL808_I2C_CONFIG_SUB_ADDR_BC_MASK == Field(2, BL808_I2C_CONFIG_SUB_ADDR_BC_SHIFT)
BL808_I2C_CONFIG_10B_ADDR_EN == BIT(7)
BL808_I2C_CONFIG_SLV_ADDR_SHIFT == 8
BL808_I2C_CONFIG_SLV_ADDR_MASK == Field(10, BL808_I2C_CONFIG_SLV_ADDR_SHIFT)
BL808_I2C_CONFIG_PKT_LEN_SHIFT == 20
BL808_I2C_CONFIG_PKT_LEN_MASK == Field(8, BL808_I2C_CONFIG_PKT_LEN_SHIFT)

BL808_I2C_STS_END_INT == BIT(0)
BL808_I2C_STS_TXF_INT == BIT(1)
BL808_I2C_STS_RXF_INT == BIT(2)
BL808_I2C_STS_NAK_INT == BIT(3)
BL808_I2C_STS_ARB_INT == BIT(4)
BL808_I2C_STS_FER_INT == BIT(5)
BL808_I2C_STS_ALL_INT ==
    BL808_I2C_STS_END_INT \cup BL808_I2C_STS_TXF_INT \cup BL808_I2C_STS_RXF_INT
    \cup BL808_I2C_STS_NAK_INT \cup BL808_I2C_STS_ARB_INT \cup BL808_I2C_STS_FER_INT

BL808_I2C_STS_END_MASK == BIT(8)
BL808_I2C_STS_TXF_MASK == BIT(9)
BL808_I2C_STS_RXF_MASK == BIT(10)
BL808_I2C_STS_NAK_MASK == BIT(11)
BL808_I2C_STS_ARB_MASK == BIT(12)
BL808_I2C_STS_FER_MASK == BIT(13)
BL808_I2C_STS_ALL_MASK ==
    BL808_I2C_STS_END_MASK \cup BL808_I2C_STS_TXF_MASK \cup BL808_I2C_STS_RXF_MASK
    \cup BL808_I2C_STS_NAK_MASK \cup BL808_I2C_STS_ARB_MASK \cup BL808_I2C_STS_FER_MASK

BL808_I2C_STS_END_CLR == BIT(16)
BL808_I2C_STS_NAK_CLR == BIT(19)
BL808_I2C_STS_ARB_CLR == BIT(20)

BL808_I2C_STS_END_EN == BIT(24)
BL808_I2C_STS_TXF_EN == BIT(25)
BL808_I2C_STS_RXF_EN == BIT(26)
BL808_I2C_STS_NAK_EN == BIT(27)
BL808_I2C_STS_ARB_EN == BIT(28)
BL808_I2C_STS_FER_EN == BIT(29)
BL808_I2C_STS_ALL_EN ==
    BL808_I2C_STS_END_EN \cup BL808_I2C_STS_TXF_EN \cup BL808_I2C_STS_RXF_EN
    \cup BL808_I2C_STS_NAK_EN \cup BL808_I2C_STS_ARB_EN \cup BL808_I2C_STS_FER_EN

BL808_I2C_PRD_S_PH_0_SHIFT == 0
BL808_I2C_PRD_S_PH_1_SHIFT == 8
BL808_I2C_PRD_S_PH_2_SHIFT == 16
BL808_I2C_PRD_S_PH_3_SHIFT == 24

BL808_I2C_FIFO_CONFIG_0_TX_FIFO_CLR == BIT(2)
BL808_I2C_FIFO_CONFIG_0_RX_FIFO_CLR == BIT(3)

\* flags of struct i2c_msg
I2C_M_RD == BIT(0)
I2C_M_TEN == BIT(4)

\* errno values; the driver returns and records them negated
EINVAL == 22
ENXIO == 6
EAGAIN == 11
EIO == 5
EREMOTEIO == 121
ETIMEDOUT == 110

\* the null pointer, for curr_msg (an index into msgs) and msg_buf
NULL == 0

-----------------------------------------------------------------------------
(* Memory the driver streams through: the caller's message array *)

\* byte k (from 1) of every transmit buffer as the caller filled it
TxByte(k) == (k * 37 + 129) % 256

\* content of a receive buffer byte nothing was stored in yet
Unwritten == 0 - 1

\* struct i2c_msg; buf holds the bytes stored into the buffer so far, the
\* other bytes of the buffer are as the caller left them
WriteMsg(a, n) == [addr |-> a, flags |-> {}, len |-> n, buf |-> <<>>]
ReadMsg(a, n) == [addr |-> a, flags |-> I2C_M_RD, len |-> n, buf |-> <<>>]

\* byte k (from 1) of the buffer of msg
BufByte(msg, k) ==
    IF k \in DOMAIN msg.buf THEN msg.buf[k]
    ELSE IF I2C_M_RD \subseteq msg.flags THEN Unwritten
    ELSE TxByte(k)

\* two target addresses, 0x50 and 0x51
AddrA == Val({4, 6})
AddrB == Val({0, 4, 6})

\* the message arrays bl808_i2c_xfer is called with
Batches ==
    { <<>>,
      <<WriteMsg(AddrA, 3)>>,
      <<WriteMsg(AddrA, 5)>>,
      <<WriteMsg(AddrA, 1), ReadMsg(AddrA, 4)>>,
      <<WriteMsg(AddrA, 5), ReadMsg(AddrA, 4)>>,
      <<WriteMsg(AddrA, 257)>>,
      <<WriteMsg(AddrA, 3), WriteMsg(AddrB, 257)>>,
      <<ReadMsg(AddrA, 4), ReadMsg(AddrB, 5)>> }

\* the word the receive data register returns: bytes 0..3, low byte first
RxWord == <<17, 34, 51, 68>>

-----------------------------------------------------------------------------
(* 32-bit words as four bytes, low byte first *)

Zero32 == <<0, 0, 0, 0>>

\* b << (i * 8) for a byte b and 0 <= i <= 3
\* the lanes in the opposite order
ByteShl_BigEndian(b, i) == [j \in 1..4 |-> IF j = 4 - i THEN b ELSE 0]

ByteShl(b, i) == [j \in 1..4 |-> IF j = i + 1 THEN b ELSE 0]

\* a + b modulo 2^32
Add32(a, b) ==
    LET s0 == a[1] + b[1]
        s1 == a[2] + b[2] + (s0 \div 256)
        s2 == a[3] + b[3] + (s1 \div 256)
        s3 == a[4] + b[4] + (s2 \div 256)
    IN  <<s0 % 256, s1 % 256, s2 % 256, s3 % 256>>

-----------------------------------------------------------------------------
(* Register access and the small register operations *)

\* the STS bits a write can change: the six interrupt status bits are read-only
bl808_i2c_writel_STS(s, val) == [s EXCEPT !.STS = val \ BL808_I2C_STS_ALL_INT]

bl808_i2c_enable(s) ==
    [s EXCEPT !.CONFIG = @ \cup BL808_I2C_CONFIG_M_EN,
              !.enables = @ + 1,
              !.sts_at_enable = s.STS]

\* M_EN is flipped instead of cleared
bl808_i2c_disable_Toggles(s) ==
    LET s1 == [s EXCEPT !.CONFIG = IF BL808_I2C_CONFIG_M_EN \subseteq @
                                   THEN @ \ BL808_I2C_CONFIG_M_EN
                                   ELSE @ \cup BL808_I2C_CONFIG_M_EN,
                        !.FIFO_CONFIG_0 = @ \cup BL808_I2C_FIFO_CONFIG_0_TX_FIFO_CLR
                                            \cup BL808_I2C_FIFO_CONFIG_0_RX_FIFO_CLR]
    IN  bl808_i2c_writel_STS(s1, s1.STS \cup BL808_I2C_STS_END_CLR
                                        \cup BL808_I2C_STS_NAK_CLR
                                        \cup BL808_I2C_STS_ARB_CLR)

bl808_i2c_disable(s) ==
    LET s1 == [s EXCEPT !.CONFIG = @ \ BL808_I2C_CONFIG_M_EN,
                        !.FIFO_CONFIG_0 = @ \cup BL808_I2C_FIFO_CONFIG_0_TX_FIFO_CLR
                                            \cup BL808_I2C_FIFO_CONFIG_0_RX_FIFO_CLR]
    IN  bl808_i2c_writel_STS(s1, s1.STS \cup BL808_I2C_STS_END_CLR
                                        \cup BL808_I2C_STS_NAK_CLR
                                        \cup BL808_I2C_STS_ARB_CLR)

bl808_i2c_enable_interrupts(s, interrupts) ==
    bl808_i2c_writel_STS(s, s.STS \cup (interrupts \cap BL808_I2C_STS_ALL_EN))

bl808_i2c_unmask_interrupts(s, interrupts) ==
    bl808_i2c_writel_STS(s, s.STS \ (interrupts \cap BL808_I2C_STS_ALL_MASK))

bl808_i2c_disable_interrupts(s, interrupts) ==
    bl808_i2c_writel_STS(s, s.STS \ (interrupts \cap BL808_I2C_STS_ALL_EN))

bl808_i2c_mask_interrupts(s, interrupts) ==
    bl808_i2c_writel_STS(s, s.STS \cup (interrupts \cap BL808_I2C_STS_ALL_MASK))

\* the clear also masks every source
bl808_i2c_clear_interrupts_MasksAll(s) ==
    bl808_i2c_writel_STS(s, s.STS \cup BL808_I2C_STS_END_CLR
                                  \cup BL808_I2C_STS_NAK_CLR
                                  \cup BL808_I2C_STS_ARB_CLR
                                  \cup BL808_I2C_STS_ALL_MASK)

bl808_i2c_clear_interrupts(s) ==
    bl808_i2c_writel_STS(s, s.STS \cup BL808_I2C_STS_END_CLR
                                  \cup BL808_I2C_STS_NAK_CLR
                                  \cup BL808_I2C_STS_ARB_CLR)

\* FIFO_CONFIG_0 is left as it was
bl808_i2c_clear_fifo_err_Nothing(s) == s

bl808_i2c_clear_fifo_err(s) ==
    [s EXCEPT !.FIFO_CONFIG_0 = @ \cup BL808_I2C_FIFO_CONFIG_0_RX_FIFO_CLR
                                  \cup BL808_I2C_FIFO_CONFIG_0_TX_FIFO_CLR,
              !.fifo_err_clears = @ + 1]

bl808_i2c_init(s) ==
    bl808_i2c_disable_interrupts(
        bl808_i2c_mask_interrupts(bl808_i2c_disable(s), BL808_I2C_STS_ALL_MASK),
        BL808_I2C_STS_ALL_EN)

\* sub_addr is a u16 parameter, sub_addr_size a u8 one
bl808_i2c_addr_config(s, target_addr, sub_addr, sub_addr_size, is_addr_10bit) ==
    LET v0 == s.CONFIG
        v1 == IF sub_addr_size > 0
              THEN ((v0 \cup BL808_I2C_CONFIG_SUB_ADDR_EN)
                       \ BL808_I2C_CONFIG_SUB_ADDR_BC_MASK)
                   \cup Shr(Bits(sub_addr_size - 1), BL808_I2C_CONFIG_SUB_ADDR_BC_SHIFT)
              ELSE v0 \ BL808_I2C_CONFIG_SUB_ADDR_EN
        v2 == (v1 \ BL808_I2C_CONFIG_SLV_ADDR_MASK)
              \cup Shl(Bits(target_addr), BL808_I2C_CONFIG_SLV_ADDR_SHIFT)
        v3 == IF is_addr_10bit THEN v2 \cup BL808_I2C_CONFIG_10B_ADDR_EN
                               ELSE v2 \ BL808_I2C_CONFIG_10B_ADDR_EN
        v4 == v3 \ BL808_I2C_CONFIG_SCL_SYNC_EN
    IN  [s EXCEPT !.SUB_ADDR = Bits(sub_addr), !.CONFIG = v4]

bl808_i2c_set_dir(s, is_in) ==
    [s EXCEPT !.CONFIG = IF is_in THEN @ \cup BL808_I2C_CONFIG_PKT_DIR
                                  ELSE @ \ BL808_I2C_CONFIG_PKT_DIR]

\* data_len >= 1 here: bl808_i2c_start_transfer passes msg->len
bl808_i2c_set_datalen(s, data_len) ==
    [s EXCEPT !.CONFIG = (@ \ BL808_I2C_CONFIG_PKT_LEN_MASK)
                         \cup (Shl(Bits(data_len - 1), BL808_I2C_CONFIG_PKT_LEN_SHIFT)
                               \cap BL808_I2C_CONFIG_PKT_LEN_MASK)]

-----------------------------------------------------------------------------
(* FIFO pump *)

\* msg_buf is a pointer into the buffer of message m, off bytes from its start
NullBuf == [m |-> NULL, off |-> 0]
BufOf(i) == [m |-> i, off |-> 0]

\* msg_buf + i lies inside the buffer msg_buf was taken from
InBuf(s, i) ==
    LET p == s.msg_buf IN
    /\ ~s.buf_stale
    /\ p.m \in DOMAIN s.msgs
    /\ p.off + i + 1 \in 1..s.msgs[p.m].len

\* msg_buf[i]: a byte of the caller's buffer, or whatever memory holds (junk)
\* when the pointer is left over from an earlier call or runs past the buffer
ReadBuf(s, i, junk) ==
    IF InBuf(s, i) THEN BufByte(s.msgs[s.msg_buf.m], s.msg_buf.off + i + 1)
    ELSE junk

\* msg_buf[i] = b
StoreBuf(s, i, b) ==
    LET p == s.msg_buf
        k == p.off + i + 1
    IN
    IF InBuf(s, i)
    THEN [s EXCEPT !.msgs[p.m].buf =
             [j \in 1..(IF k > Len(@) THEN k ELSE Len(@)) |->
                 IF j = k THEN b ELSE BufByte(s.msgs[p.m], j)]]
    ELSE [s EXCEPT !.wild_write = TRUE]

RECURSIVE PackBytes(_, _, _, _)
\* the inner for loops of bl808_fill_tx_fifo: temp += msg_buf[i] << ((i % 4) * 8)
\* for i = from .. n - 1
PackBytes(s, temp, n, junk) ==
    IF n = 0 THEN temp
    ELSE Add32(PackBytes(s, temp, n - 1, junk),
               ByteShl(ReadBuf(s, n - 1, junk) % 256, (n - 1) % 4))

RECURSIVE StoreBytes(_, _, _)
\* msg_buf[i] = (temp >> (i * 8)) & 0xff for i = 0 .. n - 1
StoreBytes(s, temp, n) ==
    IF n = 0 THEN s
    ELSE StoreBuf(StoreBytes(s, temp, n - 1), n - 1, temp[n])

RECURSIVE FillLoop_KeepsPartial(_, _, _, _)
\* the final partial word is sent but msg_buf_remaining is left as it was
FillLoop_KeepsPartial(s, temp, slots, junk) ==
    IF slots = 0 THEN s
    ELSE
      LET rem == s.msg_buf_remaining
          n == IF rem >= 4 THEN 4 ELSE rem
          t == PackBytes(s, temp, n, junk)
          s1 == [s EXCEPT !.msg_buf.off = @ + n,
                          !.msg_buf_remaining = IF rem >= 4 THEN rem - 4 ELSE rem,
                          !.pushed = @ + n,
                          !.FIFO_WDATA = Append(@, t)]
      IN  FillLoop_KeepsPartial(s1, t, slots - 1, junk)

RECURSIVE FillLoop(_, _, _, _)
\* one iteration of the while loop of bl808_fill_tx_fifo per offered slot
FillLoop(s, temp, slots, junk) ==
    IF slots = 0 THEN s
    ELSE
      LET rem == s.msg_buf_remaining
          n == IF rem >= 4 THEN 4 ELSE rem
          t == PackBytes(s, temp, n, junk)
          s1 == [s EXCEPT !.msg_buf.off = @ + n,
                          !.msg_buf_remaining = rem - n,
                          !.pushed = @ + n,
                          !.FIFO_WDATA = Append(@, t)]
      IN  FillLoop(s1, t, slots - 1, junk)

\* slots: how many times in a row FIFO_CONFIG_1 reports a free transmit slot
bl808_fill_tx_fifo(s, slots, junk) ==
    FillLoop([s EXCEPT !.FIFO_WDATA = <<>>, !.fill_from = s.msg_buf.off],
             Zero32, slots, junk)

\* the partial word is stored as a whole word
RECURSIVE DrainLoop_WholeWord(_, _)
DrainLoop_WholeWord(s, slots) ==
    IF slots = 0 THEN s
    ELSE
      LET rem == s.msg_buf_remaining
          temp == IF s.FIFO_RDATA = <<>> THEN RxWord ELSE Head(s.FIFO_RDATA)
          n == IF rem > 0 THEN 4 ELSE 0
          s1 == StoreBytes(s, temp, n)
          s2 == [s1 EXCEPT !.msg_buf.off = @ + n,
                           !.msg_buf_remaining = rem - rem,
                           !.FIFO_RDATA = IF @ = <<>> THEN @ ELSE Tail(@)]
      IN  DrainLoop_WholeWord(s2, slots - 1)

RECURSIVE DrainLoop(_, _)
\* one iteration of the while loop of bl808_drain_rx_fifo per occupied slot;
\* FIFO_RDATA delivers the words queued for it, and RxWord when none is
DrainLoop(s, slots) ==
    IF slots = 0 THEN s
    ELSE
      LET rem == s.msg_buf_remaining
          temp == IF s.FIFO_RDATA = <<>> THEN RxWord ELSE Head(s.FIFO_RDATA)
          n == IF rem >= 4 THEN 4 ELSE rem
          s1 == StoreBytes(s, temp, n)
          s2 == [s1 EXCEPT !.msg_buf.off = @ + n,
                           !.msg_buf_remaining = rem - rem,
                           !.FIFO_RDATA = IF @ = <<>> THEN @ ELSE Tail(@)]
      IN  DrainLoop(s2, slots - 1)

\* slots: how many times in a row FIFO_CONFIG_1 reports an occupied receive slot
bl808_drain_rx_fifo(s, slots) == DrainLoop(s, slots)

-----------------------------------------------------------------------------
(* Transfer state machine *)

\* the message a struct i2c_msg pointer refers to; outside the caller's array
\* the memory read is arbitrary
JunkMsg(junk) ==
    [addr |-> junk, flags |-> IF junk = 0 THEN {} ELSE I2C_M_RD \cup I2C_M_TEN,
     len |-> junk + 1, buf |-> <<>>]
MsgAt(s, i, junk) == IF i \in DOMAIN s.msgs THEN s.msgs[i] ELSE JunkMsg(junk)

\* every byte lands in the low byte
SubAddr_Shifted(msg, n) == (BufByte(msg, 1) * 256) % 65536

RECURSIVE SubAddr(_, _)
\* subaddr += msg->buf[i] << (i * 8) for i < n, in a u16
SubAddr(msg, n) ==
    IF n = 0 THEN 0
    ELSE LET b == BufByte(msg, n)
             \* b << 16 and b << 24 have no bit below 2^16
             term == IF n - 1 < 2 THEN b * (256 ^ (n - 1)) ELSE 0
         IN  (SubAddr(msg, n - 1) + term) % 65536

\* every source is unmasked and enabled, whatever the direction
StartDirection_AllSources(s, msg) ==
    bl808_i2c_enable_interrupts(
        bl808_i2c_unmask_interrupts(
            bl808_i2c_set_dir(s, I2C_M_RD \subseteq msg.flags),
            BL808_I2C_STS_ALL_MASK),
        BL808_I2C_STS_ALL_EN)

\* lines 588-596: direction and the interrupt set for it
StartDirection(s, msg) ==
    IF I2C_M_RD \subseteq msg.flags
    THEN bl808_i2c_enable_interrupts(
             bl808_i2c_unmask_interrupts(bl808_i2c_set_dir(s, TRUE),
                 BL808_I2C_STS_ALL_MASK \ BL808_I2C_STS_TXF_MASK),
             BL808_I2C_STS_ALL_EN \ BL808_I2C_STS_TXF_EN)
    ELSE bl808_i2c_enable_interrupts(
             bl808_i2c_unmask_interrupts(bl808_i2c_set_dir(s, FALSE),
                 BL808_I2C_STS_ALL_MASK \ BL808_I2C_STS_RXF_MASK),
             BL808_I2C_STS_ALL_EN \ BL808_I2C_STS_RXF_EN)

CombinedMessage_AnyAddr(msg, nxt_msg) ==
    /\ msg.len <= 4
    /\ ~(I2C_M_RD \subseteq msg.flags)
    /\ I2C_M_RD \subseteq nxt_msg.flags

\* line 559
CombinedMessage(msg, nxt_msg) ==
    /\ msg.len <= 4
    /\ ~(I2C_M_RD \subseteq msg.flags)
    /\ I2C_M_RD \subseteq nxt_msg.flags
    /\ msg.addr = nxt_msg.addr

\* the packet length field holds len - 1 in 8 bits
MaxPktLen == 256

\* line 581
LenTooLong_OffByOne(msg) == msg.len > MaxPktLen + 1
LenTooLong(msg) == msg.len > MaxPktLen

\* returns the new device state and the int result
bl808_i2c_start_transfer(s, junk) ==
    LET msg0 == MsgAt(s, s.curr_msg, junk)
        is_ten_bit == I2C_M_TEN \subseteq msg0.flags
    IN
    IF s.num_msgs = 0 THEN [s |-> s, ret |-> -EINVAL]
    ELSE
      LET s1 == [s EXCEPT !.num_msgs = @ - 1,
                          !.msg_buf = BufOf(s.curr_msg),
                          !.buf_stale = FALSE,
                          !.msg_buf_remaining = msg0.len % 65536]
          nxt_msg == MsgAt(s, s.curr_msg + 1, junk)
          combined_message == s1.num_msgs > 0 /\ CombinedMessage(msg0, nxt_msg)
          subaddr == IF combined_message THEN SubAddr(msg0, msg0.len) ELSE 0
          subaddr_size == IF combined_message THEN msg0.len ELSE 0
          s2 == IF combined_message
                THEN [s1 EXCEPT !.curr_msg = @ + 1,
                                !.num_msgs = @ - 1,
                                !.msg_buf = BufOf(s.curr_msg + 1),
                                !.msg_buf_remaining = nxt_msg.len % 65536]
                ELSE s1
          msg == IF combined_message THEN nxt_msg ELSE msg0
          s3 == bl808_i2c_addr_config(s2, msg.addr, subaddr, subaddr_size % 256,
                                      is_ten_bit)
      IN
      IF LenTooLong(msg) THEN [s |-> s3, ret |-> -EINVAL]
      ELSE [s |-> [bl808_i2c_enable(
                       StartDirection(bl808_i2c_set_datalen(s3, msg.len), msg))
                   EXCEPT !.started = s2.curr_msg],
            ret |-> 0]

bl808_i2c_finish_transfer_KeepsCount(s) ==
    [s EXCEPT !.curr_msg = NULL,
              !.msg_buf = NullBuf,
              !.buf_stale = FALSE,
              !.msg_buf_remaining = 0]

bl808_i2c_finish_transfer(s) ==
    [s EXCEPT !.curr_msg = NULL,
              !.num_msgs = 0,
              !.msg_buf = NullBuf,
              !.buf_stale = FALSE,
              !.msg_buf_remaining = 0]

\* complete(&i2c_dev->completion)
complete(s) == [s EXCEPT !.done = @ + 1]

\* the interrupt sources are disabled but left unmasked
Teardown_NoMask(s) ==
    bl808_i2c_disable_interrupts(
        bl808_i2c_clear_interrupts(bl808_i2c_disable(s)),
        BL808_I2C_STS_ALL_EN)

\* the label complete: of bl808_i2c_isr, and lines 739-742 of bl808_i2c_xfer
Teardown(s) ==
    bl808_i2c_disable_interrupts(
        bl808_i2c_mask_interrupts(
            bl808_i2c_clear_interrupts(bl808_i2c_disable(s)),
            BL808_I2C_STS_ALL_MASK),
        BL808_I2C_STS_ALL_EN)

IsrComplete(s) == complete(Teardown(s))

\* i2c_dev->msg_err = e
SetErr(s, e) == [s EXCEPT !.msg_err = e, !.err_writes = @ + 1]

\* the handler returns after the pump and never starts the next message
IsrChain_Never(s, junk) == s

\* lines 670-677 and 690-697: chain to the next message
IsrChain(s, junk) ==
    IF s.num_msgs # 0 /\ s.msg_buf_remaining = 0
    THEN LET r == bl808_i2c_start_transfer([s EXCEPT !.curr_msg = @ + 1], junk)
         IN  IF r.ret # 0 THEN IsrComplete(SetErr(r.s, r.ret))
                          ELSE r.s
    ELSE s

\* lines 632-647: FIFO error
IsrFer(s) == IsrComplete(bl808_i2c_clear_fifo_err(SetErr(s, -EIO)))

\* the receive FIFO is left undrained
IsrEnd_NoDrain(s, slots, junk) ==
    IsrComplete(SetErr(s, IF s.msg_buf_remaining # 0 THEN -EREMOTEIO ELSE 0))

\* lines 648-660: transfer end
IsrEnd(s, slots, junk) ==
    LET s1 == IF I2C_M_RD \subseteq MsgAt(s, s.curr_msg, junk).flags
              THEN bl808_drain_rx_fifo(s, slots) ELSE s
    IN  IsrComplete(SetErr(s1, IF s1.msg_buf_remaining # 0 THEN -EREMOTEIO ELSE 0))

\* with no room left the handler reports a timeout
IsrRxf_WrongErrno(s, slots, junk) ==
    IF s.msg_buf_remaining = 0
    THEN IsrComplete(SetErr(s, -ETIMEDOUT))
    ELSE IsrChain(bl808_drain_rx_fifo(s, slots), junk)

\* lines 661-679: RX ready
IsrRxf(s, slots, junk) ==
    IF s.msg_buf_remaining = 0
    THEN IsrComplete(SetErr(s, -EREMOTEIO))
    ELSE IsrChain(bl808_drain_rx_fifo(s, slots), junk)

\* with nothing left to send both FIFO sources are masked and disabled
IsrTxf_QuietsBoth(s, slots, junk) ==
    IF s.msg_buf_remaining = 0
    THEN bl808_i2c_disable_interrupts(
             bl808_i2c_mask_interrupts(s,
                 BL808_I2C_STS_TXF_MASK \cup BL808_I2C_STS_RXF_MASK),
             BL808_I2C_STS_TXF_EN \cup BL808_I2C_STS_RXF_EN)
    ELSE IsrChain(bl808_fill_tx_fifo(s, slots, junk), junk)

\* lines 680-700: TX ready
IsrTxf(s, slots, junk) ==
    IF s.msg_buf_remaining = 0
    THEN bl808_i2c_disable_interrupts(
             bl808_i2c_mask_interrupts(s, BL808_I2C_STS_TXF_MASK),
             BL808_I2C_STS_TXF_EN)
    ELSE IsrChain(bl808_fill_tx_fifo(s, slots, junk), junk)

\* NACK is looked at before arbitration loss, TX ready before RX ready
bl808_i2c_isr_Reordered(s, val, slots, junk) ==
    IF s.curr_msg = NULL THEN IsrComplete(s)
    ELSE IF BL808_I2C_STS_NAK_INT \subseteq val
    THEN IsrComplete(SetErr(s, -ENXIO))
    ELSE IF BL808_I2C_STS_ARB_INT \subseteq val
    THEN IsrComplete(SetErr(s, -EAGAIN))
    ELSE IF BL808_I2C_STS_FER_INT \subseteq val THEN IsrFer(s)
    ELSE IF BL808_I2C_STS_END_INT \subseteq val THEN IsrEnd(s, slots, junk)
    ELSE IF BL808_I2C_STS_TXF_INT \subseteq val THEN IsrTxf(s, slots, junk)
    ELSE IF BL808_I2C_STS_RXF_INT \subseteq val THEN IsrRxf(s, slots, junk)
    ELSE bl808_i2c_clear_interrupts(s)

\* the handler dispatches on the status word without looking at curr_msg
bl808_i2c_isr_NoNullCheck(s, val, slots, junk) ==
    IF BL808_I2C_STS_ARB_INT \subseteq val
    THEN IsrComplete(SetErr(s, -EAGAIN))
    ELSE IF BL808_I2C_STS_NAK_INT \subseteq val
    THEN IsrComplete(SetErr(s, -ENXIO))
    ELSE IF BL808_I2C_STS_FER_INT \subseteq val THEN IsrFer(s)
    ELSE IF BL808_I2C_STS_END_INT \subseteq val THEN IsrEnd(s, slots, junk)
    ELSE IF BL808_I2C_STS_RXF_INT \subseteq val THEN IsrRxf(s, slots, junk)
    ELSE IF BL808_I2C_STS_TXF_INT \subseteq val THEN IsrTxf(s, slots, junk)
    ELSE bl808_i2c_clear_interrupts(s)

\* val: the interrupt status bits read from STS; slots: FIFO slots the pump
\* finds; junk: what a read through a dangling pointer yields
bl808_i2c_isr(s, val, slots, junk) ==
    IF s.curr_msg = NULL THEN IsrComplete(s)
    ELSE IF BL808_I2C_STS_ARB_INT \subseteq val
    THEN IsrComplete(SetErr(s, -EAGAIN))
    ELSE IF BL808_I2C_STS_NAK_INT \subseteq val
    THEN IsrComplete(SetErr(s, -ENXIO))
    ELSE IF BL808_I2C_STS_FER_INT \subseteq val THEN IsrFer(s)
    ELSE IF BL808_I2C_STS_END_INT \subseteq val THEN IsrEnd(s, slots, junk)
    ELSE IF BL808_I2C_STS_RXF_INT \subseteq val THEN IsrRxf(s, slots, junk)
    ELSE IF BL808_I2C_STS_TXF_INT \subseteq val THEN IsrTxf(s, slots, junk)
    ELSE bl808_i2c_clear_interrupts(s)

-----------------------------------------------------------------------------
(* Clock divider *)

\* the quotient itself, without the - 1
clk_bl808_i2c_calc_divider_NoDecrement(rate, parent_rate) ==
    Bits((parent_rate \div 4) \div rate)

\* divider = ((parent_rate / 4) / rate) - 1, an unsigned long stored in a u32:
\* a quotient of 0 wraps to 0xffffffff
clk_bl808_i2c_calc_divider(rate, parent_rate) ==
    LET q == (parent_rate \div 4) \div rate
    IN  IF q = 0 THEN 0..31 ELSE Bits(q - 1)

\* the divider goes to the registers unclamped
clk_bl808_i2c_set_rate_NoClamp(s, rate, parent_rate) ==
    LET divider0 == clk_bl808_i2c_calc_divider(rate, parent_rate) IN
    IF divider0 = {} THEN [s |-> s, ret |-> -EINVAL, warned |-> FALSE]
    ELSE
      LET lane == divider0 \cap Field(8, 0)
          val == Shl(lane, BL808_I2C_PRD_S_PH_0_SHIFT)
                 \cup Shl(lane, BL808_I2C_PRD_S_PH_1_SHIFT)
                 \cup Shl(lane, BL808_I2C_PRD_S_PH_2_SHIFT)
                 \cup Shl(lane, BL808_I2C_PRD_S_PH_3_SHIFT)
      IN  [s |-> [s EXCEPT !.PRD_START = val, !.PRD_DATA = val, !.PRD_STOP = val,
                           !.prd_writes = @ + 3],
           ret |-> 0, warned |-> divider0 \ Field(8, 0) # {}]

\* returns the new device state, the int result and whether dev_warn ran
clk_bl808_i2c_set_rate(s, rate, parent_rate) ==
    LET divider0 == clk_bl808_i2c_calc_divider(rate, parent_rate) IN
    IF divider0 = {} THEN [s |-> s, ret |-> -EINVAL, warned |-> FALSE]
    ELSE
      LET clamp == divider0 \ Field(8, 0) # {}
          divider == IF clamp THEN Field(8, 0) ELSE divider0
          lane == divider \cap Field(8, 0)
          val == Shl(lane, BL808_I2C_PRD_S_PH_0_SHIFT)
                 \cup Shl(lane, BL808_I2C_PRD_S_PH_1_SHIFT)
                 \cup Shl(lane, BL808_I2C_PRD_S_PH_2_SHIFT)
                 \cup Shl(lane, BL808_I2C_PRD_S_PH_3_SHIFT)
      IN  [s |-> [s EXCEPT !.PRD_START = val, !.PRD_DATA = val, !.PRD_STOP = val,
                           !.prd_writes = @ + 3],
           ret |-> 0, warned |-> clamp]

\* the placeholder parent clock of round_rate and recalc_rate; the source
\* uses the name without defining it, so its value is part of the request
BL808_TEMP_PARENT_CLK == clk.temp_parent

\* the result of a rate query: ok is FALSE when the division is by zero
NoRate == [done |-> FALSE, ok |-> FALSE, val |-> 0]
RateOf(parent, divisor) ==
    IF divisor = 0 THEN [done |-> TRUE, ok |-> FALSE, val |-> 0]
    ELSE [done |-> TRUE, ok |-> TRUE, val |-> parent \div divisor]

\* (divider + 1) * 4 in u32 arithmetic
PeriodOf(divider) ==
    IF divider = 0..31 THEN 0 ELSE ((Val(divider) + 1) * 4)

\* BL808_TEMP_PARENT_CLK / ((divider + 1) * 4), divider as calc_divider gives it
clk_bl808_i2c_round_rate(rate, parent_rate) ==
    RateOf(BL808_TEMP_PARENT_CLK,
           PeriodOf(clk_bl808_i2c_calc_divider(rate, parent_rate)))

\* the divider is read back from a 7-bit lane
clk_bl808_i2c_recalc_rate_ShortLane(s) ==
    RateOf(BL808_TEMP_PARENT_CLK, PeriodOf(s.PRD_START \cap Field(7, 0)))

\* divider = PRD_START & 0xff
clk_bl808_i2c_recalc_rate(s) ==
    RateOf(BL808_TEMP_PARENT_CLK, PeriodOf(s.PRD_START \cap Field(8, 0)))

-----------------------------------------------------------------------------
(* The state after bl808_i2c_probe *)

\* devm_kzalloc, init_completion, and a register block out of reset
ResetDev ==
    [CONFIG |-> {}, STS |-> {}, SUB_ADDR |-> {}, FIFO_CONFIG_0 |-> {},
     FIFO_WDATA |-> <<>>, FIFO_RDATA |-> <<>>,
     PRD_START |-> {}, PRD_DATA |-> {}, PRD_STOP |-> {},
     curr_msg |-> NULL, num_msgs |-> 0, msg_err |-> 0,
     msg_buf |-> NullBuf, msg_buf_remaining |-> 0,
     done |-> 0,
     msgs |-> <<>>,
     \* bookkeeping of the model
     buf_stale |-> FALSE, wild_write |-> FALSE,
     enables |-> 0, pushed |-> 0, prd_writes |-> 0,
     err_writes |-> 0, fifo_err_clears |-> 0,
     \* the slots FIFO_CONFIG_1 reported to the last run of the handler
     slots |-> 0,
     \* STS as it was when M_EN was last set
     sts_at_enable |-> {},
     \* where msg_buf stood when bl808_fill_tx_fifo was last entered
     fill_from |-> 0,
     \* the last message of the batch the controller was enabled for
     started |-> 0]

NoRequest ==
    [rate |-> 0, parent_rate |-> 0, called |-> FALSE, ret |-> 0, warned |-> FALSE,
     before |-> <<{}, {}, {}>>,
     temp_parent |-> 0, round |-> NoRate, recalc |-> NoRate]

Init ==
    /\ i2c_dev = bl808_i2c_init(ResetDev)
    /\ pc = "idle"
    /\ num = 0
    /\ time_left = 0
    /\ ret = 0
    /\ start_ret = 0
    /\ isr_pc = "idle"
    /\ isr_val = {}
    /\ nirq = 0
    /\ trace = "none"
    /\ clk = NoRequest

-----------------------------------------------------------------------------
(* bl808_i2c_xfer, one action per step another context can interleave with *)

\* what a read through a pointer the driver holds can yield
JunkChoices ==
    IF \/ i2c_dev.buf_stale
       \/ (i2c_dev.curr_msg # NULL /\ i2c_dev.curr_msg \notin DOMAIN i2c_dev.msgs)
    THEN {0, 255} ELSE {0}

\* reinit_completion(&i2c_dev->completion)
reinit_completion(s) == [s EXCEPT !.done = 0]

\* lines 724-726: curr_msg = msgs, num_msgs = num, reinit_completion
XferArm(s, msgs) ==
    reinit_completion(
        [s EXCEPT !.msgs = msgs,
                  !.curr_msg = 1,
                  !.num_msgs = Len(msgs),
                  !.buf_stale = (s.msg_buf # NullBuf),
                  !.FIFO_WDATA = <<>>,
                  !.enables = 0, !.pushed = 0,
                  !.err_writes = 0, !.fifo_err_clears = 0, !.slots = 0,
                  !.sts_at_enable = {}, !.fill_from = 0, !.started = 0])

XferBegin ==
    /\ pc \in {"idle", "returned"}
    /\ \E msgs \in Batches :
          /\ i2c_dev' = XferArm(i2c_dev, msgs)
          /\ num' = Len(msgs)
    /\ pc' = "begun"
    /\ time_left' = 0
    /\ ret' = 0
    /\ start_ret' = 0
    /\ trace' = "none"
    /\ isr_val' = IF isr_pc = "idle" THEN {} ELSE isr_val
    \* a handler that is still running was entered for an earlier call
    /\ isr_pc' = IF isr_pc = "idle" THEN "idle" ELSE "stale"
    /\ UNCHANGED <<nirq, clk>>

\* line 730: what bl808_i2c_xfer returns when bl808_i2c_start_transfer failed
XferStartFailed(s, r) == s.msg_err

\* lines 728-731
XferStart ==
    /\ pc = "begun"
    /\ \E junk \in JunkChoices :
          LET r == bl808_i2c_start_transfer(i2c_dev, junk) IN
          /\ i2c_dev' = r.s
          /\ start_ret' = r.ret
          /\ IF r.ret # 0
             THEN pc' = "returned" /\ ret' = XferStartFailed(r.s, r.ret)
             ELSE pc' = "waiting" /\ ret' = ret
    /\ UNCHANGED <<num, time_left, isr_pc, isr_val, nirq, trace, clk>>

\* wait_for_completion_timeout: 0 on timeout, the jiffies left otherwise
wait_for_completion_timeout(s, timed_out) ==
    IF timed_out THEN [s |-> s, time_left |-> 0]
    ELSE [s |-> [s EXCEPT !.done = @ - 1], time_left |-> 1]

\* line 733: the wait ends by the completion or, while it is not done, by timeout
XferWait ==
    /\ pc = "waiting"
    /\ LET r == wait_for_completion_timeout(i2c_dev, i2c_dev.done = 0) IN
          /\ i2c_dev' = r.s
          /\ time_left' = r.time_left
    /\ pc' = "woken"
    /\ UNCHANGED <<num, ret, start_ret, isr_pc, isr_val, nirq, trace, clk>>

\* line 736
XferFinish ==
    /\ pc = "woken"
    /\ i2c_dev' = bl808_i2c_finish_transfer(i2c_dev)
    /\ pc' = "finished"
    /\ UNCHANGED <<num, time_left, ret, start_ret, isr_pc, isr_val, nirq, trace, clk>>

\* the timeout is reported without the teardown
XferResult_NoTeardown(s, tl, n) ==
    IF tl = 0 THEN [s |-> s, ret |-> -ETIMEDOUT]
    ELSE IF s.msg_err = 0 THEN [s |-> s, ret |-> n]
    ELSE [s |-> s, ret |-> s.msg_err]

\* lines 738-753: the device state and the value returned
XferResult(s, tl, n) ==
    IF tl = 0 THEN [s |-> Teardown(s), ret |-> -ETIMEDOUT]
    ELSE IF s.msg_err = 0 THEN [s |-> s, ret |-> n]
    ELSE [s |-> s, ret |-> s.msg_err]

XferReturn ==
    /\ pc = "finished"
    /\ LET r == XferResult(i2c_dev, time_left, num) IN
          /\ i2c_dev' = r.s
          /\ ret' = r.ret
    /\ pc' = "returned"
    /\ UNCHANGED <<num, time_left, start_ret, isr_pc, isr_val, nirq, trace, clk>>

-----------------------------------------------------------------------------
(* Observation of the interrupts a call sees *)

\* the source an interrupt is about: the first set bit in the documented order
\* arbitration lost, NACK, FIFO error, transfer end, RX ready, TX ready
Source(val) ==
    IF BL808_I2C_STS_ARB_INT \subseteq val THEN "ARB"
    ELSE IF BL808_I2C_STS_NAK_INT \subseteq val THEN "NAK"
    ELSE IF BL808_I2C_STS_FER_INT \subseteq val THEN "FER"
    ELSE IF BL808_I2C_STS_END_INT \subseteq val THEN "END"
    ELSE IF BL808_I2C_STS_RXF_INT \subseteq val THEN "RXF"
    ELSE IF BL808_I2C_STS_TXF_INT \subseteq val THEN "TXF"
    ELSE "NONE"

\* trace tells which of these the interrupts handled since the call began are:
\*   none     no interrupt
\*   nak      one NACK interrupt
\*   fer      one FIFO-error interrupt
\*   txf      one or more TX-ready interrupts
\*   rxf      one or more RX-ready interrupts
\*   end, txf_end, rxf_end   the same, followed by one transfer-end interrupt
\*   other    anything else, or an interrupt handled while the caller was not
\*            parked in wait_for_completion_timeout
TraceStep(tr, val, parked) ==
    LET src == Source(val) IN
    IF ~parked THEN "other"
    ELSE IF tr = "none" /\ src = "NAK" THEN "nak"
    ELSE IF tr = "none" /\ src = "FER" THEN "fer"
    ELSE IF tr \in {"none", "txf"} /\ src = "TXF" THEN "txf"
    ELSE IF tr \in {"none", "rxf"} /\ src = "RXF" THEN "rxf"
    ELSE IF tr = "none" /\ src = "END" THEN "end"
    ELSE IF tr = "txf" /\ src = "END" THEN "txf_end"
    ELSE IF tr = "rxf" /\ src = "END" THEN "rxf_end"
    ELSE "other"

-----------------------------------------------------------------------------
(* bl808_i2c_isr *)

\* status words the handler can find in STS
StatusSets ==
    { {},
      BL808_I2C_STS_ARB_INT, BL808_I2C_STS_NAK_INT, BL808_I2C_STS_FER_INT,
      BL808_I2C_STS_END_INT, BL808_I2C_STS_RXF_INT, BL808_I2C_STS_TXF_INT,
      BL808_I2C_STS_ARB_INT \cup BL808_I2C_STS_NAK_INT \cup BL808_I2C_STS_FER_INT
          \cup BL808_I2C_STS_END_INT,
      BL808_I2C_STS_NAK_INT \cup BL808_I2C_STS_FER_INT \cup BL808_I2C_STS_END_INT,
      BL808_I2C_STS_FER_INT \cup BL808_I2C_STS_END_INT,
      BL808_I2C_STS_END_INT \cup BL808_I2C_STS_RXF_INT \cup BL808_I2C_STS_TXF_INT,
      BL808_I2C_STS_RXF_INT \cup BL808_I2C_STS_TXF_INT }

\* without a current message the handler does not look at the status word
\* (line 619): one status word stands for all of them
StatusChoices == IF i2c_dev.curr_msg = NULL THEN {{}} ELSE StatusSets

\* what FIFO_CONFIG_1 can report to a pump loop; it is read on these paths only
SlotChoices(val) ==
    IF /\ i2c_dev.curr_msg # NULL
       /\ val \cap (BL808_I2C_STS_ARB_INT \cup BL808_I2C_STS_NAK_INT
                     \cup BL808_I2C_STS_FER_INT) = {}
       /\ \/ /\ BL808_I2C_STS_END_INT \subseteq val
             /\ \E junk \in JunkChoices :
                   I2C_M_RD \subseteq MsgAt(i2c_dev, i2c_dev.curr_msg, junk).flags
          \/ /\ val \cap BL808_I2C_STS_END_INT = {}
             /\ val \cap (BL808_I2C_STS_RXF_INT \cup BL808_I2C_STS_TXF_INT) # {}
             /\ i2c_dev.msg_buf_remaining # 0
    THEN 0..MaxSlots ELSE {0}

\* lines 619-714 on the status word val
IsrBody(val) ==
    /\ \E slots \in SlotChoices(val), junk \in JunkChoices :
          i2c_dev' = [bl808_i2c_isr(i2c_dev, val, slots, junk) EXCEPT !.slots = slots]
    /\ isr_val' = val
    /\ nirq' = nirq + 1
    /\ trace' = TraceStep(trace, val, pc = "waiting")
    /\ isr_pc' = "idle"
    /\ UNCHANGED <<pc, num, time_left, ret, start_ret, clk>>

\* the interrupt line is shared (IRQF_SHARED, line 824): the handler runs at
\* any time, with whatever status the controller shows
Isr ==
    /\ isr_pc = "idle"
    /\ nirq < MaxIrqs
    /\ \E val \in StatusChoices : IsrBody(val)

Next ==
    \/ XferBegin
    \/ XferStart
    \/ XferWait
    \/ XferFinish
    \/ XferReturn
    \/ Isr

Spec == Init /\ [][Next]_vars

-----------------------------------------------------------------------------
(* The handler as a second context: between its entry and its body the     *)
(* thread can run. Here only the controller itself raises the interrupt.   *)

\* the controller raises its interrupt for sources that are enabled and unmasked
Raised(s, val) ==
    /\ BL808_I2C_CONFIG_M_EN \subseteq s.CONFIG
    /\ val # {}
    /\ \A b \in val : (b + 8) \notin s.STS /\ (b + 24) \in s.STS

\* line 617: the handler is entered and reads STS
IsrEnter ==
    /\ isr_pc = "idle"
    /\ nirq < MaxIrqs
    /\ \E val \in StatusSets :
          /\ Raised(i2c_dev, val)
          /\ isr_val' = val
    /\ isr_pc' = "entered"
    /\ UNCHANGED <<i2c_dev, pc, num, time_left, ret, start_ret, nirq, trace, clk>>

\* lines 619-714
IsrRun ==
    /\ isr_pc \in {"entered", "stale"}
    /\ IsrBody(isr_val)

NextRace ==
    \/ XferBegin
    \/ XferStart
    \/ XferWait
    \/ XferFinish
    \/ XferReturn
    \/ IsrEnter
    \/ IsrRun

SpecRace == Init /\ [][NextRace]_vars

-----------------------------------------------------------------------------
(* bl808_i2c_start_transfer on its own: one call per behaviour *)

StartLens == {1, 4, 5, 256, 257}
StartMsgs ==
    {WriteMsg(a, n) : a \in {AddrA, AddrB}, n \in StartLens}
    \cup {ReadMsg(a, n) : a \in {AddrA, AddrB}, n \in StartLens}
StartBatches ==
    {<<m>> : m \in StartMsgs} \cup {<<m, n>> : m \in StartMsgs, n \in StartMsgs}

\* the idle controller after probe, and after an earlier combined transfer
IdleDev == bl808_i2c_init(ResetDev)
UsedDev ==
    Teardown(bl808_i2c_finish_transfer(
        bl808_i2c_start_transfer(
            XferArm(IdleDev, <<WriteMsg(AddrB, 2), ReadMsg(AddrB, 4)>>), 0).s))

InitStart ==
    /\ \E s \in {IdleDev, UsedDev}, msgs \in StartBatches :
          /\ i2c_dev = XferArm(s, msgs)
          /\ num = Len(msgs)
    /\ pc = "begun"
    /\ time_left = 0
    /\ ret = 0
    /\ start_ret = 0
    /\ isr_pc = "idle"
    /\ isr_val = {}
    /\ nirq = 0
    /\ trace = "none"
    /\ clk = NoRequest

SpecStart == InitStart /\ [][XferStart]_vars

-----------------------------------------------------------------------------
(* clk_bl808_i2c_set_rate on its own: one request per behaviour *)

ParentRates == {40000000, 160000000}

\* quotients (parent_rate / 4) / rate the requests are placed around
Quotients == {1, 2, 3, 100, 255, 256, 257, 1000}

Rates ==
    {r \in {((p \div 4) \div q) + d : p \in ParentRates, q \in Quotients,
                                      d \in {0 - 1, 0, 1}} : r >= 1}
    \cup {100000, 400000, 1000000, 3400000}

\* the phase registers out of reset, and as an earlier request left them
ClkDevs == {IdleDev, clk_bl808_i2c_set_rate(IdleDev, 100000, 40000000).s}

Prd(s) == <<s.PRD_START, s.PRD_DATA, s.PRD_STOP>>

InitClk ==
    /\ \E s \in ClkDevs, r \in Rates, p \in ParentRates, tp \in ParentRates :
          /\ i2c_dev = [s EXCEPT !.prd_writes = 0]
          /\ clk = [NoRequest EXCEPT !.rate = r, !.parent_rate = p,
                                     !.before = Prd(s), !.temp_parent = tp]
    /\ pc = "idle"
    /\ num = 0
    /\ time_left = 0
    /\ ret = 0
    /\ start_ret = 0
    /\ isr_pc = "idle"
    /\ isr_val = {}
    /\ nirq = 0
    /\ trace = "none"

ClkSetRate ==
    /\ ~clk.called
    /\ LET r == clk_bl808_i2c_set_rate(i2c_dev, clk.rate, clk.parent_rate) IN
          /\ i2c_dev' = r.s
          /\ clk' = [clk EXCEPT !.called = TRUE, !.ret = r.ret, !.warned = r.warned,
                                !.recalc = NoRate]
    /\ UNCHANGED <<pc, num, time_left, ret, start_ret, isr_pc, isr_val, nirq, trace>>

\* the preview of the rate the request would give
ClkRoundRate ==
    /\ ~clk.round.done
    /\ clk' = [clk EXCEPT !.round = clk_bl808_i2c_round_rate(clk.rate, clk.parent_rate)]
    /\ UNCHANGED <<i2c_dev, pc, num, time_left, ret, start_ret, isr_pc, isr_val,
                   nirq, trace>>

\* the rate read back from the registers as they are now
ClkRecalcRate ==
    /\ ~clk.recalc.done
    /\ clk' = [clk EXCEPT !.recalc = clk_bl808_i2c_recalc_rate(i2c_dev)]
    /\ UNCHANGED <<i2c_dev, pc, num, time_left, ret, start_ret, isr_pc, isr_val,
                   nirq, trace>>

NextClk ==
    \/ ClkSetRate
    \/ ClkRoundRate
    \/ ClkRecalcRate

SpecClk == InitClk /\ [][NextClk]_vars

-----------------------------------------------------------------------------
(* bl808_fill_tx_fifo and bl808_drain_rx_fifo on their own: one message is  *)
(* started and the pumps are called with every sequence of slot counts; a   *)
(* short write is looped back, its FIFO word read again into a read message *)

PumpBytes == {0, 1, 128, 255}
MaxPumpLen == 9

\* write messages with their bytes spelled out, up to one FIFO word
ShortWrites ==
    UNION {{[WriteMsg(AddrA, n) EXCEPT !.buf = b] : b \in [1..n -> PumpBytes]}
           : n \in 1..4}

PumpBatches ==
    {<<w, ReadMsg(AddrB, w.len)>> : w \in ShortWrites}
    \cup {<<WriteMsg(AddrA, n)>> : n \in 1..MaxPumpLen}
    \cup {<<ReadMsg(AddrA, n)>> : n \in 1..MaxPumpLen}

InitPump ==
    /\ \E msgs \in PumpBatches :
          /\ i2c_dev = bl808_i2c_start_transfer(XferArm(IdleDev, msgs), 0).s
          /\ num = Len(msgs)
    /\ pc = "waiting"
    /\ time_left = 0
    /\ ret = 0
    /\ start_ret = 0
    /\ isr_pc = "idle"
    /\ isr_val = {}
    /\ nirq = 0
    /\ trace = "none"
    /\ clk = NoRequest

\* the message msg_buf points into
PumpMsg == i2c_dev.msgs[i2c_dev.msg_buf.m]

PumpFill ==
    /\ ~(I2C_M_RD \subseteq PumpMsg.flags)
    /\ i2c_dev.msg_buf_remaining > 0
    /\ \E slots \in 1..MaxSlots :
          i2c_dev' = bl808_fill_tx_fifo(i2c_dev, slots, 0)
    /\ UNCHANGED <<pc, num, time_left, ret, start_ret, isr_pc, isr_val, nirq,
                   trace, clk>>

PumpDrain ==
    /\ I2C_M_RD \subseteq PumpMsg.flags
    /\ \E slots \in 1..MaxSlots :
          i2c_dev' = bl808_drain_rx_fifo(i2c_dev, slots)
    /\ UNCHANGED <<pc, num, time_left, ret, start_ret, isr_pc, isr_val, nirq,
                   trace, clk>>

\* the words sent come back as the words received, and the handler chains to
\* the read message
PumpLoopback ==
    /\ i2c_dev.num_msgs # 0
    /\ i2c_dev.msg_buf_remaining = 0
    /\ i2c_dev' = IsrChain([i2c_dev EXCEPT !.FIFO_RDATA = i2c_dev.FIFO_WDATA], 0)
    /\ UNCHANGED <<pc, num, time_left, ret, start_ret, isr_pc, isr_val, nirq,
                   trace, clk>>

NextPump ==
    \/ PumpFill
    \/ PumpDrain
    \/ PumpLoopback

SpecPump == InitPump /\ [][NextPump]_vars

-----------------------------------------------------------------------------
(* Properties of bl808_i2c_xfer, checked under Spec unless said otherwise.  *)
(* The scenarios of C1, C3 and C4 are recognised by trace: the interrupts   *)
(* handled since the call began are the ones the scenario lists, each       *)
(* handled while the caller waits for the completion.                       *)

\* master-enable clear, all six sources masked, all six enables clear
ControllerIdle ==
    /\ i2c_dev.CONFIG \cap BL808_I2C_CONFIG_M_EN = {}
    /\ BL808_I2C_STS_ALL_MASK \subseteq i2c_dev.STS
    /\ i2c_dev.STS \cap BL808_I2C_STS_ALL_EN = {}

\* bl808_i2c_xfer has returned and bl808_i2c_start_transfer had succeeded
ReturnedAfterWait == pc = "returned" /\ start_ret = 0

\* C1: a transfer whose first interrupt has NAK set and ARB clear makes
\* bl808_i2c_xfer return -ENXIO, and when it returns master-enable is clear,
\* the six interrupt masks are set and the six interrupt enables are clear.
C1_NackReturnsENXIO ==
    (ReturnedAfterWait /\ trace = "nak")
        => (ret = -ENXIO /\ ControllerIdle)

C1_Witness ==
    /\ ReturnedAfterWait
    /\ trace = "nak"
    /\ ret = -ENXIO
    /\ BL808_I2C_STS_NAK_INT \subseteq isr_val
    /\ i2c_dev.msgs # <<>>

\* C2: when bl808_i2c_start_transfer succeeded and no interrupt was handled,
\* bl808_i2c_xfer returns -ETIMEDOUT after doing the teardown itself:
\* master-enable clear, all sources masked, all enables clear at return.
C2_NoInterruptTimesOut ==
    (ReturnedAfterWait /\ trace = "none")
        => (ret = -ETIMEDOUT /\ time_left = 0 /\ ControllerIdle)

C2_Witness ==
    /\ ReturnedAfterWait
    /\ trace = "none"
    /\ ret = -ETIMEDOUT
    /\ ControllerIdle
    /\ i2c_dev.enables = 1

\* the batch is one write message
SingleWrite ==
    /\ Len(i2c_dev.msgs) = 1
    /\ ~(I2C_M_RD \subseteq i2c_dev.msgs[1].flags)

\* C3: for a batch of one write message of length L, when TX-ready
\* interrupts pushed all L bytes into the transmit FIFO and an END interrupt
\* followed with nothing remaining, bl808_i2c_xfer returns 1.
C3_SingleWriteReturnsOne ==
    (/\ ReturnedAfterWait
     /\ SingleWrite
     /\ trace = "txf_end"
     /\ i2c_dev.pushed = i2c_dev.msgs[1].len)
        => ret = 1

C3_Witness ==
    /\ ReturnedAfterWait
    /\ SingleWrite
    /\ trace = "txf_end"
    /\ i2c_dev.msgs[1].len = 3
    /\ i2c_dev.pushed = 3
    /\ ret = 1

\* the batch is write(1 byte, A) + read(4 bytes, A)
WriteOneReadFour ==
    /\ Len(i2c_dev.msgs) = 2
    /\ ~(I2C_M_RD \subseteq i2c_dev.msgs[1].flags)
    /\ i2c_dev.msgs[1].len = 1
    /\ I2C_M_RD \subseteq i2c_dev.msgs[2].flags
    /\ i2c_dev.msgs[2].len = 4
    /\ i2c_dev.msgs[1].addr = i2c_dev.msgs[2].addr

\* C4: for write(1 byte, A) + read(4 bytes, A) there is one combined
\* transaction: while the transfer runs master-enable has been asserted once,
\* SUB_ADDR holds the write byte and the active message is the read; when the
\* four bytes are drained and END arrived bl808_i2c_xfer returns 2, with
\* master-enable still asserted only once.
C4_WriteReadCombined ==
    /\ (pc = "waiting" /\ WriteOneReadFour /\ trace \in {"none", "rxf"})
          => /\ i2c_dev.curr_msg = 2
             /\ i2c_dev.enables = 1
             /\ BL808_I2C_CONFIG_SUB_ADDR_EN \subseteq i2c_dev.CONFIG
             /\ BL808_I2C_CONFIG_PKT_DIR \subseteq i2c_dev.CONFIG
             /\ i2c_dev.SUB_ADDR = Bits(TxByte(1))
    /\ (/\ ReturnedAfterWait
        /\ WriteOneReadFour
        /\ trace \in {"end", "rxf_end"}
        /\ Len(i2c_dev.msgs[2].buf) = 4)
          => /\ ret = 2
             /\ i2c_dev.enables = 1
             /\ i2c_dev.pushed = 0
             /\ i2c_dev.SUB_ADDR = Bits(TxByte(1))

C4_Witness ==
    /\ ReturnedAfterWait
    /\ WriteOneReadFour
    /\ trace = "rxf_end"
    /\ i2c_dev.msgs[2].buf = RxWord
    /\ ret = 2
    /\ i2c_dev.enables = 1

\* C5: when bl808_i2c_start_transfer fails, bl808_i2c_xfer returns that
\* same error, a negative errno and never 0 or a value left in msg_err.
C5_StartFailureReturned ==
    (pc = "returned" /\ start_ret # 0)
        => (ret = start_ret /\ ret < 0)

\* C6: when the wait ended by the completion and not by the timeout,
\* bl808_i2c_xfer has cleared curr_msg, num_msgs, msg_buf and
\* msg_buf_remaining and returns num if msg_err is 0, else msg_err.
C6_SignalledReturn ==
    (ReturnedAfterWait /\ time_left # 0)
        => /\ i2c_dev.curr_msg = NULL
           /\ i2c_dev.num_msgs = 0
           /\ i2c_dev.msg_buf = NullBuf
           /\ i2c_dev.msg_buf_remaining = 0
           /\ ret = IF i2c_dev.msg_err = 0 THEN num ELSE i2c_dev.msg_err

C6_Witness ==
    /\ ReturnedAfterWait
    /\ time_left # 0
    /\ i2c_dev.msg_err = -EREMOTEIO
    /\ ret = -EREMOTEIO
    /\ num = 1
    /\ i2c_dev.num_msgs = 0

\* the rule as the specification words it, for the first two messages
MergeRule ==
    /\ Len(i2c_dev.msgs) >= 2
    /\ ~(I2C_M_RD \subseteq i2c_dev.msgs[1].flags)
    /\ i2c_dev.msgs[1].len <= 4
    /\ I2C_M_RD \subseteq i2c_dev.msgs[2].flags
    /\ i2c_dev.msgs[1].addr = i2c_dev.msgs[2].addr

\* the address phase carries a sub-address and the second message is active
Merged ==
    /\ i2c_dev.curr_msg = 2
    /\ i2c_dev.msg_buf = BufOf(2)
    /\ BL808_I2C_CONFIG_SUB_ADDR_EN \subseteq i2c_dev.CONFIG

\* no sub-address, the first message is active
NotMerged ==
    /\ i2c_dev.curr_msg = 1
    /\ i2c_dev.msg_buf = BufOf(1)
    /\ i2c_dev.CONFIG \cap BL808_I2C_CONFIG_SUB_ADDR_EN = {}
    /\ i2c_dev.SUB_ADDR = {}

\* C7 (under SpecStart): bl808_i2c_start_transfer merges the current message
\* into the address phase of the next one exactly when the current message is
\* a write of at most 4 bytes and the next is a read to the same address;
\* otherwise the sub-address size is 0 and the current message stays active.
C7_MergeRule ==
    pc # "begun" => IF MergeRule THEN Merged ELSE NotMerged

C7_Witness ==
    /\ pc # "begun"
    /\ MergeRule
    /\ Merged
    /\ i2c_dev.msgs[1].len = 4
    /\ i2c_dev.msgs[2].len = 256

\* curr_msg, num_msgs, msg_buf and msg_buf_remaining
Bookkeeping(s) == <<s.curr_msg, s.num_msgs, s.msg_buf, s.msg_buf_remaining>>

\* C8 (under SpecRace): no step of the thread in bl808_i2c_xfer changes
\* curr_msg, num_msgs, msg_buf or msg_buf_remaining while bl808_i2c_isr is
\* between its entry and its return, the timeout path included.
C8_NoThreadWriteDuringIsr ==
    [][(pc' # pc /\ Bookkeeping(i2c_dev)' # Bookkeeping(i2c_dev))
          => isr_pc = "idle"]_vars

\* C9 (under SpecStart): when the message that becomes active is longer than
\* 256 bytes bl808_i2c_start_transfer returns -EINVAL and has not asserted
\* master-enable.
C9_LongMessageRejected ==
    (pc # "begun" /\ i2c_dev.msgs[i2c_dev.curr_msg].len > 256)
        => /\ start_ret = -EINVAL
           /\ i2c_dev.enables = 0
           /\ i2c_dev.CONFIG \cap BL808_I2C_CONFIG_M_EN = {}

C9_Witness ==
    /\ pc = "returned"
    /\ start_ret = -EINVAL
    /\ i2c_dev.curr_msg = 2
    /\ i2c_dev.msgs[2].len = 257
    /\ i2c_dev.enables = 0

\* C10 (under SpecClk): a request whose quotient (parent_rate / 4) / rate is
\* 1, so that the divider is 0, makes clk_bl808_i2c_set_rate return -EINVAL
\* and leaves PRD_START, PRD_DATA and PRD_STOP unwritten.
C10_ZeroDividerRejected ==
    (clk.called /\ (clk.parent_rate \div 4) \div clk.rate = 1)
        => /\ clk.ret = -EINVAL
           /\ i2c_dev.prd_writes = 0
           /\ Prd(i2c_dev) = clk.before

C10_Witness ==
    /\ clk.called
    /\ clk.parent_rate = 40000000
    /\ clk.rate = 10000000
    /\ clk.ret = -EINVAL
    /\ clk.before # <<{}, {}, {}>>
    /\ Prd(i2c_dev) = clk.before

\* the quotient the divider is computed from
Quotient == (clk.parent_rate \div 4) \div clk.rate

\* 0xff in each of the four lanes
AllLanes255 == 0..31

\* C11 (under SpecClk): a request whose divider (parent_rate / 4) / rate - 1
\* exceeds 255 succeeds, writes the divider 255 to the three registers and
\* warns.
C11_SlowRateClamped ==
    (clk.called /\ Quotient - 1 > 255)
        => /\ clk.ret = 0
           /\ clk.warned
           /\ Prd(i2c_dev) = <<AllLanes255, AllLanes255, AllLanes255>>
           /\ i2c_dev.prd_writes = 3

C11_Witness ==
    /\ clk.called
    /\ Quotient = 257
    /\ clk.ret = 0
    /\ clk.warned
    /\ i2c_dev.PRD_START = AllLanes255

\* C12 (under SpecClk): a request above parent_rate / 4, whose quotient is 0,
\* makes clk_bl808_i2c_set_rate fail with -EINVAL and program nothing.
C12_TooFastRejected ==
    (clk.called /\ Quotient = 0)
        => /\ clk.ret = -EINVAL
           /\ i2c_dev.prd_writes = 0

\* C13 (under SpecClk): after a request that succeeds unclamped (divider in
\* 1..255) clk_bl808_i2c_recalc_rate returns what clk_bl808_i2c_round_rate
\* returns for the same rate and parent rate.
C13_RecalcMatchesRound ==
    (/\ clk.called
     /\ Quotient - 1 \in 1..255
     /\ clk.recalc.done
     /\ clk.round.done)
        => /\ clk.ret = 0
           /\ clk.recalc.ok
           /\ clk.recalc = clk.round

C13_Witness ==
    /\ clk.called
    /\ Quotient = 256
    /\ clk.recalc.done
    /\ clk.round.done
    /\ clk.recalc.ok
    /\ clk.recalc.val = clk.temp_parent \div 1024
    /\ clk.before # Prd(i2c_dev)

\* a short write went out as one word and came back as one word into a read
\* message of the same length
LoopedBack ==
    /\ Len(i2c_dev.msgs) = 2
    /\ i2c_dev.curr_msg = 2
    /\ Len(i2c_dev.FIFO_WDATA) = 1
    /\ i2c_dev.FIFO_RDATA = <<>>
    /\ i2c_dev.msg_buf_remaining = 0

\* C14 (under SpecPump): bytes of length 1 to 4 packed into one FIFO word by
\* bl808_fill_tx_fifo and unpacked from it by bl808_drain_rx_fifo come back
\* the same and in the same order, byte i being bits 8i..8i+7 of the word.
C14_WordRoundTrip ==
    LoopedBack
        => /\ i2c_dev.msgs[2].buf = i2c_dev.msgs[1].buf
           /\ \A i \in 1..4 :
                 i2c_dev.FIFO_WDATA[1][i] =
                     IF i <= i2c_dev.msgs[1].len THEN i2c_dev.msgs[1].buf[i] ELSE 0

C14_Witness ==
    /\ LoopedBack
    /\ i2c_dev.msgs[1].buf = <<255, 0, 128>>
    /\ i2c_dev.msgs[2].buf = <<255, 0, 128>>
    /\ i2c_dev.FIFO_WDATA = << <<255, 0, 128, 0>> >>

\* C15 (under SpecPump): whatever the message length and the slot counts, the
\* pumps touch no buffer byte at or past the declared length: the buffer
\* pointer never passes the end and no store lands outside the buffer.
C15_PumpsStayInBuffer ==
    /\ i2c_dev.msg_buf.off <= PumpMsg.len
    /\ ~i2c_dev.wild_write
    /\ \A k \in 1..Len(i2c_dev.msgs) : Len(i2c_dev.msgs[k].buf) <= i2c_dev.msgs[k].len

C15_Witness ==
    /\ PumpMsg.len = 7
    /\ ~(I2C_M_RD \subseteq PumpMsg.flags)
    /\ i2c_dev.msg_buf.off = 7
    /\ i2c_dev.msg_buf_remaining = 0
    /\ Len(i2c_dev.FIFO_WDATA) = 1

\* complete() calls since reinit_completion: those still counted in the
\* completion and the one the wait has consumed
Released ==
    i2c_dev.done
    + (IF pc \in {"woken", "finished", "returned"} /\ time_left # 0 THEN 1 ELSE 0)

\* C16: within one transfer, from the re-arming of the completion until
\* bl808_i2c_xfer returns, the completion is released at most once, whatever
\* interrupts are delivered, those after the terminal one included.
C16_ReleasedOnce ==
    pc \in {"begun", "waiting", "woken", "finished"} => Released <= 1

\* this step is one run of bl808_i2c_isr
IsrStep == nirq' = nirq + 1

\* this step is one run of bl808_i2c_isr with an active message
IsrActiveStep == IsrStep /\ i2c_dev.curr_msg # NULL

\* this step is where bl808_i2c_xfer returns
ReturnStep == pc # "returned" /\ pc' = "returned"

\* C17: when bl808_i2c_xfer returns a value it read from msg_err (every
\* return but the timeout), msg_err has been written once since the attempt
\* began, so the value is not one an earlier attempt recorded.
C17_ErrorSlotWrittenOnce ==
    [][(ReturnStep /\ (start_ret' # 0 \/ time_left # 0))
          => i2c_dev'.err_writes = 1]_vars

\* the single highest-priority bit of a status word, in the order
\* arbitration lost, NACK, FIFO error, transfer end, RX ready, TX ready
TopBit(val) ==
    IF val \cap BL808_I2C_STS_ARB_INT # {} THEN BL808_I2C_STS_ARB_INT
    ELSE IF val \cap BL808_I2C_STS_NAK_INT # {} THEN BL808_I2C_STS_NAK_INT
    ELSE IF val \cap BL808_I2C_STS_FER_INT # {} THEN BL808_I2C_STS_FER_INT
    ELSE IF val \cap BL808_I2C_STS_END_INT # {} THEN BL808_I2C_STS_END_INT
    ELSE IF val \cap BL808_I2C_STS_RXF_INT # {} THEN BL808_I2C_STS_RXF_INT
    ELSE IF val \cap BL808_I2C_STS_TXF_INT # {} THEN BL808_I2C_STS_TXF_INT
    ELSE {}

\* C18: a run of bl808_i2c_isr on a status word with several bits set does
\* what it does on the highest-priority bit alone; ARB records -EAGAIN, NAK
\* without ARB -ENXIO, FER without ARB and NAK -EIO.
C18_HighestPriorityDecides ==
    [][IsrActiveStep =>
          /\ \E junk \in JunkChoices :
                i2c_dev' = [bl808_i2c_isr(i2c_dev, TopBit(isr_val'), i2c_dev'.slots, junk)
                               EXCEPT !.slots = i2c_dev'.slots]
          /\ TopBit(isr_val') = BL808_I2C_STS_ARB_INT => i2c_dev'.msg_err = -EAGAIN
          /\ TopBit(isr_val') = BL808_I2C_STS_NAK_INT => i2c_dev'.msg_err = -ENXIO
          /\ TopBit(isr_val') = BL808_I2C_STS_FER_INT => i2c_dev'.msg_err = -EIO
          /\ TopBit(isr_val') = BL808_I2C_STS_END_INT => i2c_dev'.done = i2c_dev.done + 1
          /\ TopBit(isr_val') = BL808_I2C_STS_RXF_INT => i2c_dev'.pushed = i2c_dev.pushed
      ]_vars

C18_Witness ==
    /\ nirq = 2
    /\ isr_val = BL808_I2C_STS_RXF_INT \cup BL808_I2C_STS_TXF_INT
    /\ i2c_dev.curr_msg = 2
    /\ i2c_dev.msg_buf_remaining = 0
    /\ i2c_dev.msgs[2].buf = RxWord
    /\ i2c_dev.done = 0

\* the caller's buffers and the position in them
Buffers(s) == <<s.msgs, s.msg_buf, s.msg_buf_remaining>>

\* C19: on END with an active message bl808_i2c_isr drains the receive FIFO
\* first if the message is a read (and touches no buffer if it is a write),
\* then records -EREMOTEIO if msg_buf_remaining is non-zero and 0 if it is
\* zero, and in both cases does the teardown and releases the completion.
C19_EndRecordsResult ==
    [][(IsrActiveStep /\ TopBit(isr_val') = BL808_I2C_STS_END_INT) =>
          /\ \E junk \in JunkChoices :
                IF I2C_M_RD \subseteq MsgAt(i2c_dev, i2c_dev.curr_msg, junk).flags
                THEN Buffers(i2c_dev') =
                         Buffers(bl808_drain_rx_fifo(i2c_dev, i2c_dev'.slots))
                ELSE Buffers(i2c_dev') = Buffers(i2c_dev)
          /\ i2c_dev'.msg_err =
                 IF i2c_dev'.msg_buf_remaining # 0 THEN -EREMOTEIO ELSE 0
          /\ i2c_dev'.err_writes = i2c_dev.err_writes + 1
          /\ i2c_dev'.done = i2c_dev.done + 1
          /\ ControllerIdle'
      ]_vars

C19_Witness ==
    /\ nirq = 1
    /\ isr_val = BL808_I2C_STS_END_INT
    /\ i2c_dev.curr_msg = 2
    /\ i2c_dev.msgs[2].buf = RxWord
    /\ i2c_dev.msg_err = 0
    /\ i2c_dev.done = 1
    /\ ControllerIdle

\* C20: on FER with an active message and neither ARB nor NAK set,
\* bl808_i2c_isr records -EIO, writes the TX and RX FIFO clear bits, does the
\* teardown and releases the completion; when that interrupt is the one the
\* transfer gets, bl808_i2c_xfer returns -EIO.
C20_FifoErrorIsEIO ==
    /\ [][(IsrActiveStep /\ TopBit(isr_val') = BL808_I2C_STS_FER_INT) =>
             /\ i2c_dev'.msg_err = -EIO
             /\ i2c_dev'.fifo_err_clears = i2c_dev.fifo_err_clears + 1
             /\ BL808_I2C_FIFO_CONFIG_0_TX_FIFO_CLR \subseteq i2c_dev'.FIFO_CONFIG_0
             /\ BL808_I2C_FIFO_CONFIG_0_RX_FIFO_CLR \subseteq i2c_dev'.FIFO_CONFIG_0
             /\ i2c_dev'.done = i2c_dev.done + 1
             /\ ControllerIdle'
         ]_vars
    /\ []((ReturnedAfterWait /\ trace = "fer") => ret = -EIO)

C20_Witness ==
    /\ ReturnedAfterWait
    /\ trace = "fer"
    /\ isr_val = BL808_I2C_STS_FER_INT \cup BL808_I2C_STS_END_INT
    /\ i2c_dev.fifo_err_clears = 1
    /\ ret = -EIO

\* the sources whose mask bit is clear and whose enable bit is set, as the
\* positions of their status bits
Live(sts) ==
    {b \in 0..5 : (b + 8) \notin sts /\ (b + 24) \in sts}

\* the status-bit positions of the sources
SrcEND == 0
SrcTXF == 1
SrcRXF == 2
SrcNAK == 3
SrcARB == 4
SrcFER == 5

\* the active message is a read
ActiveIsRead == I2C_M_RD \subseteq i2c_dev.msgs[i2c_dev.curr_msg].flags

\* C21 (under SpecStart): after a successful bl808_i2c_start_transfer from
\* the idle state the unmasked and enabled sources are END, RXF, NAK, ARB,
\* FER for a read and END, TXF, NAK, ARB, FER for a write, no source is
\* half-programmed, and STS already held this set when M_EN was set.
C21_DirectionInterruptSet ==
    (pc = "waiting" /\ start_ret = 0)
        => /\ Live(i2c_dev.STS) =
                  IF ActiveIsRead THEN (0..5) \ {SrcTXF} ELSE (0..5) \ {SrcRXF}
           /\ \A b \in 0..5 : (b + 8) \notin i2c_dev.STS <=> (b + 24) \in i2c_dev.STS
           /\ BL808_I2C_CONFIG_M_EN \subseteq i2c_dev.CONFIG
           /\ i2c_dev.sts_at_enable = i2c_dev.STS

C21_Witness ==
    /\ pc = "waiting"
    /\ start_ret = 0
    /\ ActiveIsRead
    /\ i2c_dev.curr_msg = 2
    /\ Live(i2c_dev.STS) = {SrcEND, SrcRXF, SrcNAK, SrcARB, SrcFER}
    /\ BL808_I2C_CONFIG_SUB_ADDR_EN \subseteq i2c_dev.CONFIG

\* C22: while a message is active the FIFO interrupt of the other direction
\* is masked and disabled, also after a chained start of a message of the
\* other direction.
C22_OppositeFifoQuiet ==
    (/\ BL808_I2C_CONFIG_M_EN \subseteq i2c_dev.CONFIG
     /\ i2c_dev.curr_msg \in DOMAIN i2c_dev.msgs)
        => LET b == IF ActiveIsRead THEN SrcTXF ELSE SrcRXF
           IN  (b + 8) \in i2c_dev.STS /\ (b + 24) \notin i2c_dev.STS

\* what the pump of this run of the handler leaves: the drain on RX ready,
\* the fill on TX ready
Pumped(junk) ==
    IF TopBit(isr_val') = BL808_I2C_STS_RXF_INT
    THEN bl808_drain_rx_fifo(i2c_dev, i2c_dev'.slots)
    ELSE bl808_fill_tx_fifo(i2c_dev, i2c_dev'.slots, junk)

\* this run of the handler is on RX ready or TX ready, pumps, and the pump
\* leaves the current message consumed with messages still to go
ChainDue ==
    /\ IsrActiveStep
    /\ TopBit(isr_val') \in {BL808_I2C_STS_RXF_INT, BL808_I2C_STS_TXF_INT}
    /\ i2c_dev.msg_buf_remaining # 0
    /\ \E junk \in JunkChoices :
          Pumped(junk).msg_buf_remaining = 0 /\ Pumped(junk).num_msgs > 0

\* C23: when the pump of an RX-ready or TX-ready run leaves
\* msg_buf_remaining at 0 with num_msgs > 0, the same run moves curr_msg
\* forward and starts that message: if the start succeeds the controller is
\* enabled once more and the completion is not released; if it fails
\* (the message is longer than 256 bytes) -EINVAL is recorded in msg_err,
\* the teardown is done and the completion is released.
C23_ChainInSameRun ==
    [][ChainDue =>
          /\ i2c_dev'.curr_msg > i2c_dev.curr_msg
          /\ i2c_dev'.num_msgs < i2c_dev.num_msgs
          /\ \E junk \in JunkChoices :
                IF LenTooLong(MsgAt(i2c_dev, i2c_dev'.curr_msg, junk))
                THEN /\ i2c_dev'.msg_err = -EINVAL
                     /\ i2c_dev'.err_writes = i2c_dev.err_writes + 1
                     /\ i2c_dev'.done = i2c_dev.done + 1
                     /\ ControllerIdle'
                ELSE /\ i2c_dev'.done = i2c_dev.done
                     /\ i2c_dev'.msg_err = i2c_dev.msg_err
                     /\ i2c_dev'.enables = i2c_dev.enables + 1
                     /\ BL808_I2C_CONFIG_M_EN \subseteq i2c_dev'.CONFIG
                     /\ i2c_dev'.msg_buf_remaining =
                            MsgAt(i2c_dev, i2c_dev'.curr_msg, junk).len
      ]_vars

\* the chained start of a read after a five-byte write
C23_Witness ==
    /\ nirq = 1
    /\ isr_val = BL808_I2C_STS_TXF_INT
    /\ i2c_dev.pushed = 5
    /\ i2c_dev.curr_msg = 2
    /\ i2c_dev.msg_buf_remaining = 4
    /\ i2c_dev.enables = 2
    /\ i2c_dev.done = 0

\* the mask and enable bits of STS
MaskEnable(s) == s.STS \cap (BL808_I2C_STS_ALL_MASK \cup BL808_I2C_STS_ALL_EN)

\* C24: on TX ready with msg_buf_remaining = 0 bl808_i2c_isr sets the TXF
\* mask bit and clears the TXF enable bit and nothing else: every other
\* mask and enable bit, CONFIG (master enable), msg_err, the message cursor
\* and the buffers are as before, and the completion is not released.
C24_TxDoneQuietsOnlyTxf ==
    [][(/\ IsrActiveStep
        /\ TopBit(isr_val') = BL808_I2C_STS_TXF_INT
        /\ i2c_dev.msg_buf_remaining = 0) =>
          /\ BL808_I2C_STS_TXF_MASK \subseteq i2c_dev'.STS
          /\ i2c_dev'.STS \cap BL808_I2C_STS_TXF_EN = {}
          /\ MaskEnable(i2c_dev') \ (BL808_I2C_STS_TXF_MASK \cup BL808_I2C_STS_TXF_EN)
                = MaskEnable(i2c_dev) \ (BL808_I2C_STS_TXF_MASK \cup BL808_I2C_STS_TXF_EN)
          /\ i2c_dev'.CONFIG = i2c_dev.CONFIG
          /\ i2c_dev'.msg_err = i2c_dev.msg_err
          /\ i2c_dev'.err_writes = i2c_dev.err_writes
          /\ i2c_dev'.curr_msg = i2c_dev.curr_msg
          /\ i2c_dev'.num_msgs = i2c_dev.num_msgs
          /\ Buffers(i2c_dev') = Buffers(i2c_dev)
          /\ i2c_dev'.pushed = i2c_dev.pushed
          /\ i2c_dev'.done = i2c_dev.done
      ]_vars

\* a three-byte write: the first TX ready sends it, the second finds nothing
\* left to send
C24_Witness ==
    /\ pc = "waiting"
    /\ nirq = 2
    /\ isr_val = BL808_I2C_STS_TXF_INT
    /\ i2c_dev.pushed = 3
    /\ i2c_dev.msg_buf_remaining = 0
    /\ BL808_I2C_STS_TXF_MASK \subseteq i2c_dev.STS
    /\ BL808_I2C_STS_RXF_MASK \subseteq i2c_dev.STS
    /\ BL808_I2C_STS_END_EN \subseteq i2c_dev.STS
    /\ BL808_I2C_CONFIG_M_EN \subseteq i2c_dev.CONFIG
    /\ i2c_dev.done = 0

\* C25: on RX ready with msg_buf_remaining = 0 bl808_i2c_isr records
\* -EREMOTEIO, leaves the buffers and the receive FIFO position alone, does
\* the teardown and releases the completion; when that interrupt is the one
\* the transfer gets, bl808_i2c_xfer returns -EREMOTEIO.
C25_RxOverrunIsEREMOTEIO ==
    /\ [][(/\ IsrActiveStep
           /\ TopBit(isr_val') = BL808_I2C_STS_RXF_INT
           /\ i2c_dev.msg_buf_remaining = 0) =>
             /\ i2c_dev'.msg_err = -EREMOTEIO
             /\ i2c_dev'.err_writes = i2c_dev.err_writes + 1
             /\ Buffers(i2c_dev') = Buffers(i2c_dev)
             /\ i2c_dev'.FIFO_RDATA = i2c_dev.FIFO_RDATA
             /\ i2c_dev'.wild_write = i2c_dev.wild_write
             /\ i2c_dev'.done = i2c_dev.done + 1
             /\ ControllerIdle'
         ]_vars
    /\ []((/\ ReturnedAfterWait
           /\ trace = "rxf"
           /\ time_left # 0
           /\ \A i \in DOMAIN i2c_dev.msgs : ~LenTooLong(i2c_dev.msgs[i]))
              => ret = -EREMOTEIO)

\* a one-byte write merged with a four-byte read: the first RX ready fills
\* the buffer, the second finds no room
C25_Witness ==
    /\ ReturnedAfterWait
    /\ trace = "rxf"
    /\ nirq = 2
    /\ isr_val = BL808_I2C_STS_RXF_INT
    /\ Len(i2c_dev.msgs) = 2
    /\ i2c_dev.msgs[2].buf = RxWord
    /\ i2c_dev.msg_err = -EREMOTEIO
    /\ ret = -EREMOTEIO
    /\ ControllerIdle

\* the interrupt latch clear bits of STS
ClearBits == BL808_I2C_STS_END_CLR \cup BL808_I2C_STS_NAK_CLR \cup BL808_I2C_STS_ARB_CLR

\* C26: when bl808_i2c_isr runs with an active message and none of the six
\* status bits set, it writes the latch clear bits and nothing else: the
\* completion is not released, msg_err, curr_msg, num_msgs, msg_buf and
\* msg_buf_remaining are unchanged, and so are CONFIG and the mask and
\* enable bits.
C26_SpuriousOnlyClears ==
    [][(IsrActiveStep /\ isr_val' = {}) =>
          /\ ClearBits \subseteq i2c_dev'.STS
          /\ i2c_dev'.STS \ ClearBits = i2c_dev.STS \ ClearBits
          /\ i2c_dev'.CONFIG = i2c_dev.CONFIG
          /\ i2c_dev'.FIFO_CONFIG_0 = i2c_dev.FIFO_CONFIG_0
          /\ i2c_dev'.done = i2c_dev.done
          /\ i2c_dev'.msg_err = i2c_dev.msg_err
          /\ i2c_dev'.err_writes = i2c_dev.err_writes
          /\ i2c_dev'.curr_msg = i2c_dev.curr_msg
          /\ i2c_dev'.num_msgs = i2c_dev.num_msgs
          /\ Buffers(i2c_dev') = Buffers(i2c_dev)
          /\ i2c_dev'.enables = i2c_dev.enables
      ]_vars

\* a started three-byte write after one interrupt with no status bit set
C26_Witness ==
    /\ pc = "waiting"
    /\ nirq = 1
    /\ isr_val = {}
    /\ trace = "other"
    /\ i2c_dev.curr_msg = 1
    /\ i2c_dev.msg_buf_remaining = 3
    /\ Live(i2c_dev.STS) = (0..5) \ {SrcRXF}
    /\ ClearBits \subseteq i2c_dev.STS
    /\ BL808_I2C_CONFIG_M_EN \subseteq i2c_dev.CONFIG
    /\ i2c_dev.done = 0

\* C27: when bl808_i2c_isr runs with curr_msg NULL it goes to the teardown
\* whatever the status word and the FIFO counts are: the completion is
\* released, the controller is idle, the latch clear bits are written, and
\* no message, buffer, FIFO data register or msg_err is touched.
C27_NoMessageGoesToTeardown ==
    [][(IsrStep /\ i2c_dev.curr_msg = NULL) =>
          /\ i2c_dev'.done = i2c_dev.done + 1
          /\ ControllerIdle'
          /\ ClearBits \subseteq i2c_dev'.STS
          /\ Buffers(i2c_dev') = Buffers(i2c_dev)
          /\ i2c_dev'.FIFO_RDATA = i2c_dev.FIFO_RDATA
          /\ i2c_dev'.FIFO_WDATA = i2c_dev.FIFO_WDATA
          /\ i2c_dev'.pushed = i2c_dev.pushed
          /\ i2c_dev'.wild_write = i2c_dev.wild_write
          /\ i2c_dev'.msg_err = i2c_dev.msg_err
          /\ i2c_dev'.err_writes = i2c_dev.err_writes
          /\ i2c_dev'.curr_msg = NULL
          /\ \A val \in StatusSets, slots \in 0..MaxSlots, junk \in {0, 255} :
                bl808_i2c_isr(i2c_dev, val, slots, junk) = IsrComplete(i2c_dev)
      ]_vars

\* an interrupt that arrives after a timed-out transfer was finished
C27_Witness ==
    /\ pc = "returned"
    /\ ret = -ETIMEDOUT
    /\ nirq = 1
    /\ i2c_dev.curr_msg = NULL
    /\ i2c_dev.done = 1
    /\ i2c_dev.err_writes = 0
    /\ ControllerIdle

\* the registers the teardown writes
Regs(s) == <<s.CONFIG, s.STS, s.FIFO_CONFIG_0>>

\* C28: the register teardown (bl808_i2c_disable, bl808_i2c_clear_interrupts,
\* mask all, disable all) done twice leaves CONFIG and STS as done once, from
\* every state the driver reaches; and the teardown of the timeout path of
\* bl808_i2c_xfer, run after the handler's teardown, changes neither.
C28_TeardownIdempotent ==
    /\ [](Regs(Teardown(Teardown(i2c_dev))) = Regs(Teardown(i2c_dev)))
    /\ [][(/\ ReturnStep
           /\ pc = "finished"
           /\ time_left = 0) =>
             /\ Regs(i2c_dev') = Regs(Teardown(i2c_dev))
             /\ (i2c_dev.done > 0 /\ ControllerIdle) => Regs(i2c_dev') = Regs(i2c_dev)
         ]_vars

\* a transfer that timed out, with the handler's teardown run before the
\* teardown of the timeout path
C28_Witness ==
    /\ pc = "returned"
    /\ start_ret = 0
    /\ time_left = 0
    /\ ret = -ETIMEDOUT
    /\ nirq >= 1
    /\ i2c_dev.done = 1
    /\ i2c_dev.err_writes = 1
    /\ ControllerIdle

\* the bytes bl808_fill_tx_fifo consumed for the k-th word of its last call,
\* packed little-endian with the unused high bytes zero
OwnWord(k) ==
    LET first == i2c_dev.fill_from + 4 * (k - 1) IN
    [j \in 1..4 |-> IF first + j <= PumpMsg.len
                    THEN BufByte(PumpMsg, first + j) % 256 ELSE 0]

\* the transmit data register holds the words of a call of bl808_fill_tx_fifo
\* on the message msg_buf points into
AfterFill ==
    /\ ~(I2C_M_RD \subseteq PumpMsg.flags)
    /\ i2c_dev.FIFO_WDATA # <<>>

\* the bytes the message had left when bl808_fill_tx_fifo was last entered
LeftAtEntry == PumpMsg.len - i2c_dev.fill_from

\* C29 (under SpecPump): every word bl808_fill_tx_fifo writes to the
\* transmit data register is the little-endian packing of the bytes consumed
\* for that word alone, also for the second and later words of one call.
C29_WordHoldsOwnBytes ==
    AfterFill =>
        \A k \in 1..Len(i2c_dev.FIFO_WDATA) :
            4 * (k - 1) < LeftAtEntry => i2c_dev.FIFO_WDATA[k] = OwnWord(k)

\* C30 (under SpecPump): one call of bl808_fill_tx_fifo that starts with R
\* bytes remaining writes at most ceil(R/4) words, so none after
\* msg_buf_remaining has reached 0, however many slots are reported free.
C30_NoWordPastTheMessage ==
    AfterFill => Len(i2c_dev.FIFO_WDATA) * 4 < LeftAtEntry + 4

\* C31 (under SpecPump): bl808_drain_rx_fifo advances msg_buf and decrements
\* msg_buf_remaining by the same number of bytes for every word, as
\* bl808_fill_tx_fifo does, so the position in the buffer and the count still
\* to go always add up to the length of the message.
C31_DrainAdvanceEqualsDecrement ==
    (I2C_M_RD \subseteq PumpMsg.flags)
        => i2c_dev.msg_buf.off + i2c_dev.msg_buf_remaining = PumpMsg.len

\* this run of the handler calls a pump on a message of the caller's batch
\* with bytes still to go
PumpRuns ==
    /\ IsrActiveStep
    /\ i2c_dev.curr_msg \in DOMAIN i2c_dev.msgs
    /\ i2c_dev.msg_buf_remaining # 0
    /\ TopBit(isr_val') \in {BL808_I2C_STS_END_INT, BL808_I2C_STS_RXF_INT,
                             BL808_I2C_STS_TXF_INT}
    /\ TopBit(isr_val') = BL808_I2C_STS_END_INT
          => I2C_M_RD \subseteq i2c_dev.msgs[i2c_dev.curr_msg].flags

\* the same message is current after the run, so msg_buf_remaining is what
\* the pump left
SameMessage == i2c_dev'.curr_msg \in {i2c_dev.curr_msg, NULL}

\* msg_buf_remaining fits its unsigned 16 bits
RemainingInRange == i2c_dev.msg_buf_remaining \in 0..65535

\* C32 as stated: msg_buf_remaining never wraps, and every call of a pump
\* made while it is non-zero leaves it strictly smaller.
C32_EveryPumpCallDecreases ==
    /\ []RemainingInRange
    /\ [][(PumpRuns /\ SameMessage)
             => i2c_dev'.msg_buf_remaining < i2c_dev.msg_buf_remaining]_vars

\* C32 amended: msg_buf_remaining never wraps; a call of a pump made while
\* it is non-zero leaves it strictly smaller if FIFO_CONFIG_1 reports at
\* least one slot, and unchanged if it reports none.
C32_PumpCallWithSlotDecreases ==
    /\ []RemainingInRange
    /\ [][(PumpRuns /\ SameMessage) =>
             IF i2c_dev'.slots >= 1
             THEN i2c_dev'.msg_buf_remaining < i2c_dev.msg_buf_remaining
             ELSE i2c_dev'.msg_buf_remaining = i2c_dev.msg_buf_remaining]_vars

\* a five-byte write after a TX ready that found one free slot
C32_Witness ==
    /\ pc = "waiting"
    /\ nirq = 1
    /\ isr_val = BL808_I2C_STS_TXF_INT
    /\ i2c_dev.slots = 1
    /\ i2c_dev.curr_msg = 1
    /\ i2c_dev.pushed = 4
    /\ i2c_dev.msg_buf_remaining = 1

RECURSIVE LittleEndian(_, _)
\* the sum over i < n of buf[i] * 256^i
LittleEndian(msg, n) ==
    IF n = 0 THEN 0
    ELSE LittleEndian(msg, n - 1) + BufByte(msg, n) * (256 ^ (n - 1))

\* C33 (under SpecStart): for a merged write+read pair whose write has n
\* bytes (1 <= n <= 4) the sub-address register holds the little-endian
\* packing of all n bytes, none lost for n = 3 or n = 4.
C33_SubAddrHoldsAllBytes ==
    (pc # "begun" /\ MergeRule)
        => i2c_dev.SUB_ADDR =
               Bits(LittleEndian(i2c_dev.msgs[1], i2c_dev.msgs[1].len))

\* C34 (under SpecStart): after bl808_i2c_start_transfer programmed the
\* address configuration, a merged pair with n write bytes has the
\* sub-address enable bit set and n - 1 in the byte-count field (bits 5..6
\* of CONFIG), a message that is not merged has the enable bit clear, and
\* in both cases the target-address field holds the active message's address.
C34_AddrConfigFields ==
    pc # "begun" =>
        /\ IF MergeRule
           THEN /\ BL808_I2C_CONFIG_SUB_ADDR_EN \subseteq i2c_dev.CONFIG
                /\ i2c_dev.CONFIG \cap BL808_I2C_CONFIG_SUB_ADDR_BC_MASK =
                       Shl(Bits(i2c_dev.msgs[1].len - 1),
                           BL808_I2C_CONFIG_SUB_ADDR_BC_SHIFT)
           ELSE i2c_dev.CONFIG \cap BL808_I2C_CONFIG_SUB_ADDR_EN = {}
        /\ i2c_dev.CONFIG \cap BL808_I2C_CONFIG_SLV_ADDR_MASK =
               Shl(Bits(i2c_dev.msgs[i2c_dev.curr_msg].addr),
                   BL808_I2C_CONFIG_SLV_ADDR_SHIFT)

\* bl808_i2c_xfer returned the message count after interrupts that all
\* arrived while it waited
SuccessReturn ==
    /\ ReturnedAfterWait
    /\ time_left # 0
    /\ ret = num
    /\ trace \in {"end", "txf_end", "rxf_end"}

\* every byte of every read message of the batch was stored from a word of
\* the receive FIFO
AllReadBytesStored ==
    \A i \in DOMAIN i2c_dev.msgs :
        I2C_M_RD \subseteq i2c_dev.msgs[i].flags
            => \A k \in 1..i2c_dev.msgs[i].len :
                   BufByte(i2c_dev.msgs[i], k) # Unwritten

\* the controller was enabled for the last message of the batch
AllStarted == i2c_dev.started = Len(i2c_dev.msgs)

\* C35: when bl808_i2c_xfer returns the message count, every byte 0..L-1 of
\* every read message of the batch was stored from the receive FIFO during
\* this transfer. Looked at where every message was started and the
\* interrupts were RX ready and END only.
C35_SuccessMeansAllBytesRead ==
    (SuccessReturn /\ AllStarted /\ trace \in {"end", "rxf_end"})
        => AllReadBytesStored

\* C36: when bl808_i2c_xfer returns the message count num, every one of the
\* num messages was started: an END interrupt that arrives while later
\* messages are pending never yields a success return.
C36_SuccessMeansAllStarted ==
    SuccessReturn => AllStarted

\* C37 (under SpecRace): at every return from bl808_i2c_xfer, on the success, recorded
\* error, timeout and start failure paths alike, master-enable is clear, the
\* six interrupt sources are masked and the six enables are clear.
C37_IdleAtEveryReturn ==
    pc = "returned" => ControllerIdle

\* C38: after bl808_i2c_xfer returned from a call with at least one
\* message, on any path, there is no active message: curr_msg is NULL and
\* num_msgs and msg_buf_remaining are 0.
C38_NoActiveMessageAfterReturn ==
    (pc = "returned" /\ num > 0)
        => /\ i2c_dev.curr_msg = NULL
           /\ i2c_dev.num_msgs = 0
           /\ i2c_dev.msg_buf_remaining = 0

\* this step is the rest of a handler run that was entered (line 617) during
\* an earlier call of bl808_i2c_xfer
LateIsrStep == isr_pc = "stale" /\ isr_pc' = "idle"

\* C39 (under SpecRace): a handler run that belongs to an earlier transfer
\* never releases the completion that a later call of bl808_i2c_xfer (with
\* at least one message) has re-armed, so it never ends that call's wait.
C39_LateInterruptEndsNoWait ==
    [][(LateIsrStep /\ pc \in {"begun", "waiting"} /\ num > 0)
          => i2c_dev'.done = i2c_dev.done]_vars

====
